---------------------------- MODULE Spec2Model ----------------------------
(***************************************************************************)
(* Model of debug-allocator (src/src/alloc.rs): DebugAlloc<A>, a decorator *)
(* around an inner allocator A that records every allocation-lifecycle     *)
(* call as an Action in a shared Arc<RwLock<VecDeque<Action>>>.            *)
(*                                                                         *)
(* A thread owns at most one DebugAlloc handle; a handle names the store   *)
(* (the RwLock and its VecDeque) its Arc points to.  Every method that     *)
(* takes the lock is split at the lock call, the only place where it can   *)
(* block: the step before it, the acquisition, and the critical section.   *)
(***************************************************************************)
EXTENDS Naturals, Sequences, FiniteSets, TLC

(* ------------------------------ bounds -------------------------------- *)
NThreads == 2
NumAddrs == 2
MaxOps == 2
MaxN == 1
MaxViews == 1
AllocOpsMax == 2
ConcCalls == 2
SeqOps == 4
CloneOps == 2
MaxLen == 3
ToolOps == 2
RenderOps == 1
FrameOps == 3
AtomicOps == 3
OrderOps == 3

Threads == 1..NThreads
Stores == 1..NThreads
Addrs == 1..NumAddrs
NoThread == 0
NoStore == 0

(* --------------------------- data model ------------------------------- *)
\* Option<T>: None is the empty tuple, Some(x) the one-element tuple.
None == << >>
Some(x) == << x >>
IsSome(o) == o # None
Unwrap(o) == o[1]

\* std::alloc::Layout, as far as alloc.rs reads it: size() and align().
Layout(s, a) == [size |-> s, align |-> a]
Layouts == { Layout(16, 4), Layout(32, 4) }

\* enum Kind: the tag, and for the three resizing variants the old layout.
KindAllocate == << "Allocate" >>
KindDeallocate == << "Deallocate" >>
KindAllocateZeroed == << "AllocateZeroed" >>
KindGrow(old) == << "Grow", old >>
KindGrowZeroed(old) == << "GrowZeroed", old >>
KindShrink(old) == << "Shrink", old >>

\* struct Action { addr, layout, kind }
Action(addr, layout, kind) == [addr |-> addr, layout |-> layout, kind |-> kind]

\* Result<NonNull<[u8]>, AllocError>, and the other ways a call can end.
Ok(a) == [tag |-> "Ok", addr |-> a]
Err == [tag |-> "Err", addr |-> 0]
Unit == [tag |-> "Unit", addr |-> 0]
Pending == [tag |-> "Pending", addr |-> 0]
Panicked == [tag |-> "Panic", addr |-> 0]
Bool(b) == [tag |-> IF b THEN "True" ELSE "False", addr |-> 0]

AllocOps == { "allocate", "deallocate", "allocate_zeroed", "grow", "grow_zeroed", "shrink" }
PruneOps == { "clear_history", "pop_history_n", "shrink_history" }
DumpOps == { "dump_all_history", "dump_n" }

(* ----------------------------- helpers -------------------------------- *)
Min(a, b) == IF a < b THEN a ELSE b

Reverse(s) == [i \in 1..Len(s) |-> s[Len(s) + 1 - i]]

\* Iterator::take(n)
Take(s, n) == SubSeq(s, 1, Min(n, Len(s)))

\* f[1] + ... + f[n]
RECURSIVE SumTo(_, _)
SumTo(f, n) == IF n = 0 THEN 0 ELSE f[n] + SumTo(f, n - 1)

(* ------------------------------ state --------------------------------- *)
VARIABLES
    handle,     \* handle[t]: the store thread t's DebugAlloc points to (NoStore: none yet)
    history,    \* history[s]: the VecDeque<Action> of store s, oldest first
    origin,     \* origin[s]: for each entry of history[s], <<thread, call number>> (bookkeeping)
    poisoned,   \* poisoned[s]: the RwLock's poison flag
    writer,     \* writer[s]: the thread holding the RwLockWriteGuard, or NoThread
    readers,    \* readers[s][t]: RwLockReadGuards of store s held by thread t
    live,       \* the inner allocator: live[a] = the block at address a
    pc,         \* pc[t]: where thread t stands in its current call
    cur,        \* cur[t]: the current (or last finished) call of thread t
    calls       \* calls[t]: calls thread t has issued

vars == << handle, history, origin, poisoned, writer, readers, live, pc, cur, calls >>

storeVars == << history, origin, poisoned, writer, readers >>

FreeBlock == [owner |-> NoThread, layout |-> None]

\* `new` is the local of that name in pop_history_n and shrink_history;
\* newOrigin goes with it as origin goes with history, and found is the log
\* as it stood before split_off (bookkeeping).
NoCall ==
    [op |-> "none", ptr |-> None, old |-> None, layout |-> None, n |-> 0,
     passed |-> << >>, inner |-> Pending, ret |-> Pending, out |-> << >>,
     new |-> << >>, newOrigin |-> << >>, found |-> << >>]

Issued == SumTo(calls, NThreads)

\* A thread may start a call: it has a handle and is between calls.
CanStart(t) ==
    /\ handle[t] # NoStore
    /\ pc[t] = "idle"

(* ------------------------- the inner allocator ------------------------ *)
\* The wrapped allocator A is opaque: a call may fail or succeed.  Addresses
\* are interchangeable, so a new block is taken to be at the lowest address
\* that is not live.  Each operator gives the set of possible outcomes
\* [res, live] of one call by thread t.
Block(t, layout) == [owner |-> t, layout |-> Some(layout)]

IsFree(lv, a) == lv[a].layout = None

FreshAddrs(lv) ==
    { a \in Addrs : IsFree(lv, a) /\ \A b \in Addrs : IsFree(lv, b) => a <= b }

\* self.alloc.allocate(layout) / self.alloc.allocate_zeroed(layout)
InnerAllocate(lv, t, layout) ==
    { [res |-> Err, live |-> lv] } \cup
    { [res |-> Ok(a), live |-> [lv EXCEPT ![a] = Block(t, layout)]] : a \in FreshAddrs(lv) }

\* self.alloc.deallocate(ptr, layout)
InnerDeallocate(lv, t, ptr, layout) ==
    { [res |-> Unit, live |-> [lv EXCEPT ![ptr] = FreeBlock]] }

\* self.alloc.grow / grow_zeroed / shrink (ptr, old_layout, new_layout): on
\* success the block is at its old address or at a new one, and the old
\* address is no longer live; on failure the old block is untouched.
InnerResize(lv, t, ptr, old, new) ==
    { [res |-> Err, live |-> lv] } \cup
    { [res |-> Ok(a), live |-> [[lv EXCEPT ![ptr] = FreeBlock] EXCEPT ![a] = Block(t, new)]] :
        a \in {ptr} \cup FreshAddrs(lv) }

\* The blocks thread t may pass to deallocate, grow, grow_zeroed and shrink:
\* the caller's obligation (a block a call of t returned and t has not
\* given back).
Owned(t) == { a \in Addrs : live[a].owner = t }

(* ------------------- the argument and result plumbing ----------------- *)

\* A slip: the old layout is handed on where the new one belongs.
InnerInvocationsOldLayout(op, ptr, old, layout) ==
    << [op |-> op, ptr |-> ptr, old |-> old, layout |-> IF IsSome(old) THEN old ELSE layout] >>

\* The arguments the decorator hands to the inner allocator, one entry per
\* inner call it makes.
InnerInvocations(op, ptr, old, layout) ==
    << [op |-> op, ptr |-> ptr, old |-> old, layout |-> layout] >>


\* A slip: the address is recorded without looking at the result.
ResultAddrUnchecked(result) == Some(result.addr)

\* result.ok().map(|ptr| ptr.cast())
ResultAddr(result) == IF result.tag = "Ok" THEN Some(result.addr) ELSE None

\* The Action each method pushes.
AllocateAction(result, layout) == Action(ResultAddr(result), layout, KindAllocate)

DeallocateAction(ptr, layout) == Action(Some(ptr), layout, KindDeallocate)

AllocateZeroedAction(result, layout) == Action(ResultAddr(result), layout, KindAllocateZeroed)

\* A slip: the two layouts of grow change places.
GrowActionLayoutsSwapped(result, old_layout, new_layout) ==
    Action(ResultAddr(result), old_layout, KindGrow(new_layout))

GrowAction(result, old_layout, new_layout) ==
    Action(ResultAddr(result), new_layout, KindGrow(old_layout))

GrowZeroedAction(result, old_layout, new_layout) ==
    Action(ResultAddr(result), new_layout, KindGrowZeroed(old_layout))

ShrinkAction(result, old_layout, new_layout) ==
    Action(ResultAddr(result), new_layout, KindShrink(old_layout))

RecordedAction(c) ==
    CASE c.op = "allocate" -> AllocateAction(c.inner, Unwrap(c.layout))
      [] c.op = "deallocate" -> DeallocateAction(Unwrap(c.ptr), Unwrap(c.layout))
      [] c.op = "allocate_zeroed" -> AllocateZeroedAction(c.inner, Unwrap(c.layout))
      [] c.op = "grow" -> GrowAction(c.inner, Unwrap(c.old), Unwrap(c.layout))
      [] c.op = "grow_zeroed" -> GrowZeroedAction(c.inner, Unwrap(c.old), Unwrap(c.layout))
      [] c.op = "shrink" -> ShrinkAction(c.inner, Unwrap(c.old), Unwrap(c.layout))

\* What the method hands back: `result`, the value the inner call produced.
Returned(c) == c.inner

(* ----------------- the six Allocator methods: first step -------------- *)
\* A slip: the write guard is taken first and held across the inner call.
BeginCallHoldingLock(t, op, ptr, old, layout, o, inv) ==
    /\ writer[handle[t]] = NoThread
    /\ \A u \in Threads : readers[handle[t]][u] = 0
    /\ ~poisoned[handle[t]]
    /\ writer' = [writer EXCEPT ![handle[t]] = t]
    /\ live' = o.live
    /\ cur' = [cur EXCEPT ![t] =
                 [NoCall EXCEPT !.op = op, !.ptr = ptr, !.old = old, !.layout = layout,
                                !.passed = inv, !.inner = o.res]]
    /\ pc' = [pc EXCEPT ![t] = "locked"]
    /\ calls' = [calls EXCEPT ![t] = @ + 1]
    /\ UNCHANGED << handle, history, origin, poisoned, readers >>

\* Each method first calls the inner allocator and keeps its result; the
\* thread then stands at self.history.write().
BeginCall(t, op, ptr, old, layout, o, inv) ==
    /\ live' = o.live
    /\ cur' = [cur EXCEPT ![t] =
                 [NoCall EXCEPT !.op = op, !.ptr = ptr, !.old = old, !.layout = layout,
                                !.passed = inv, !.inner = o.res]]
    /\ pc' = [pc EXCEPT ![t] = "write"]
    /\ calls' = [calls EXCEPT ![t] = @ + 1]
    /\ UNCHANGED << handle, storeVars >>

Allocate(t, layout) ==
    /\ CanStart(t)
    /\   LET inv == InnerInvocations("allocate", None, None, Some(layout))
             arg == inv[Len(inv)]
         IN \E o \in InnerAllocate(live, t, Unwrap(arg.layout)) :
              BeginCall(t, "allocate", None, None, Some(layout), o, inv)

AllocateZeroed(t, layout) ==
    /\ CanStart(t)
    /\   LET inv == InnerInvocations("allocate_zeroed", None, None, Some(layout))
             arg == inv[Len(inv)]
         IN \E o \in InnerAllocate(live, t, Unwrap(arg.layout)) :
              BeginCall(t, "allocate_zeroed", None, None, Some(layout), o, inv)

Deallocate(t) ==
    /\ CanStart(t)
    /\ \E ptr \in Owned(t) :
         LET layout == Unwrap(live[ptr].layout)
             inv == InnerInvocations("deallocate", Some(ptr), None, Some(layout))
             arg == inv[Len(inv)]
         IN \E o \in InnerDeallocate(live, t, Unwrap(arg.ptr), Unwrap(arg.layout)) :
              BeginCall(t, "deallocate", Some(ptr), None, Some(layout), o, inv)

Resize(t, op, ptr, new_layout) ==
    LET old_layout == Unwrap(live[ptr].layout)
        inv == InnerInvocations(op, Some(ptr), Some(old_layout), Some(new_layout))
        arg == inv[Len(inv)]
    IN \E o \in InnerResize(live, t, Unwrap(arg.ptr), Unwrap(arg.old), Unwrap(arg.layout)) :
         BeginCall(t, op, Some(ptr), Some(old_layout), Some(new_layout), o, inv)

Grow(t) ==
    /\ CanStart(t)
    /\ \E ptr \in Owned(t) :
         \E new_layout \in { l \in Layouts : l.size >= Unwrap(live[ptr].layout).size } :
           Resize(t, "grow", ptr, new_layout)

GrowZeroed(t) ==
    /\ CanStart(t)
    /\ \E ptr \in Owned(t) :
         \E new_layout \in { l \in Layouts : l.size >= Unwrap(live[ptr].layout).size } :
           Resize(t, "grow_zeroed", ptr, new_layout)

Shrink(t) ==
    /\ CanStart(t)
    /\ \E ptr \in Owned(t) :
         \E new_layout \in { l \in Layouts : l.size <= Unwrap(live[ptr].layout).size } :
           Resize(t, "shrink", ptr, new_layout)

(* ------------------------------ the lock ------------------------------ *)
\* A slip: write() takes no notice of a write guard that is held.
WriteAdmittedDespiteWriter(s) == \A u \in Threads : readers[s][u] = 0

\* A slip: write() takes no notice of the read guards.
WriteAdmittedDespiteReaders(s) == writer[s] = NoThread

\* RwLock::write() returns once no guard of any kind is held.
WriteAdmitted(s) ==
    /\ writer[s] = NoThread
    /\ \A u \in Threads : readers[s][u] = 0

\* RwLock::read() returns once no write guard is held.  (std leaves open
\* whether a waiting writer holds readers back; here it never does, so a
\* thread found blocked here is blocked under every policy.)
ReadAdmitted(s) == writer[s] = NoThread

\* How a call ends for thread t, with value r.
Finish(t, r) ==
    /\ cur' = [cur EXCEPT ![t].ret = r]
    /\ pc' = [pc EXCEPT ![t] = "idle"]


\* A slip: the poisoned lock is reported to the caller as an allocation
\* failure (`.map_err(|_| AllocError)?`).
OnPoisonedWriteFails(c) == IF c.op \in AllocOps THEN Err ELSE Panicked

\* What write() on a poisoned lock leads to: the six Allocator methods take
\* `if let Ok(..)`, skip the push and return the inner result; the pruning
\* methods unwrap() the Err and panic.
OnPoisonedWrite(c) == IF c.op \in AllocOps THEN Returned(c) ELSE Panicked

\* A slip: the guard is taken out of the error
\* (`unwrap_or_else(PoisonError::into_inner)`) and the method goes on.
WriteIsErrNever(s) == FALSE

\* write() gives Err(PoisonError) exactly when the lock's poison flag is set.
WriteIsErr(s) == poisoned[s]

\* self.history.write(): the thread blocks until the lock admits it.
WriteLock(t) ==
    LET s == handle[t] IN
    /\ pc[t] = "write"
    /\ WriteAdmitted(s)
    /\ IF WriteIsErr(s)
       THEN /\ Finish(t, OnPoisonedWrite(cur[t]))
            /\ UNCHANGED writer
       ELSE /\ writer' = [writer EXCEPT ![s] = t]
            /\ pc' = [pc EXCEPT ![t] = "locked"]
            /\ UNCHANGED cur
    /\ UNCHANGED << handle, history, origin, poisoned, readers, live, calls >>

(* ----------------------- the critical sections ------------------------ *)

\* A slip: push_front in place of push_back.
PushFrontOn(q, a) == << a >> \o q

\* VecDeque::push_back
PushBackOn(q, a) == Append(q, a)


\* A slip: the part split_off leaves behind is kept in place of its result.
SplitOffFront(q, at) == SubSeq(q, 1, at)

\* VecDeque::split_off(at): self keeps [0, at), the result is [at, len).
SplitOff(q, at) == SubSeq(q, at + 1, Len(q))

\* A slip: the newest n entries are removed (truncate) in place of the oldest.
PopHistoryFromBack(q, n) == IF Len(q) < n THEN << >> ELSE SubSeq(q, 1, Len(q) - n)

\* The body of pop_history_n under the write guard.
PopHistory(q, n) == IF Len(q) < n THEN << >> ELSE SplitOff(q, n)

\* A slip: the part split_off leaves behind, the oldest entries, is kept.
ShrinkHistoryKeepsOldest(q, n) == IF Len(q) > n THEN SubSeq(q, 1, n) ELSE q

\* The body of shrink_history under the write guard.
ShrinkHistoryTo(q, n) == IF Len(q) > n THEN SplitOff(q, Len(q) - n) ELSE q

\* The body of clear_history under the write guard.
Cleared(q) == << >>

Unlock(t) == writer' = [writer EXCEPT ![handle[t]] = NoThread]

\* wlock.push_back(Action { .. }); the guard is dropped; `result` is returned.
PushBack(t) ==
    LET s == handle[t] IN
    /\ pc[t] = "locked"
    /\ cur[t].op \in AllocOps
    /\ history' = [history EXCEPT ![s] = PushBackOn(@, RecordedAction(cur[t]))]
    /\ origin' = [origin EXCEPT ![s] = PushBackOn(@, << t, calls[t] >>)]
    /\ Unlock(t)
    /\ Finish(t, Returned(cur[t]))
    /\ UNCHANGED << handle, poisoned, readers, live, calls >>

Prune(t, op, q, o) ==
    LET s == handle[t] IN
    /\ pc[t] = "locked"
    /\ cur[t].op = op
    /\ history' = [history EXCEPT ![s] = q]
    /\ origin' = [origin EXCEPT ![s] = o]
    /\ Unlock(t)
    /\ Finish(t, Unit)
    /\ UNCHANGED << handle, poisoned, readers, live, calls >>

Clear(t) ==
    Prune(t, "clear_history", Cleared(history[handle[t]]), Cleared(origin[handle[t]]))

\* What split_off(at) leaves in the VecDeque it is called on: [0, at).
LeftBySplitOff(q, at) == SubSeq(q, 1, at)

\* let new = wlock.split_off(at): the log keeps its first `at` entries until
\* `new` is assigned to it; the write guard is still held.
TakeNew(t, op, at, new, newOrigin) ==
    LET s == handle[t] IN
    /\ pc[t] = "locked"
    /\ cur[t].op = op
    /\ cur' = [cur EXCEPT ![t].new = new, ![t].newOrigin = newOrigin,
                          ![t].found = history[s]]
    /\ history' = [history EXCEPT ![s] = LeftBySplitOff(@, at)]
    /\ origin' = [origin EXCEPT ![s] = LeftBySplitOff(@, at)]
    /\ pc' = [pc EXCEPT ![t] = "replacing"]
    /\ UNCHANGED << handle, poisoned, writer, readers, live, calls >>

\* *wlock = new; the guard is dropped and the method returns.
Replace(t) ==
    LET s == handle[t] IN
    /\ pc[t] = "replacing"
    /\ history' = [history EXCEPT ![s] = cur[t].new]
    /\ origin' = [origin EXCEPT ![s] = cur[t].newOrigin]
    /\ Unlock(t)
    /\ cur' = [cur EXCEPT ![t].ret = Unit, ![t].new = << >>, ![t].newOrigin = << >>,
                          ![t].found = << >>]
    /\ pc' = [pc EXCEPT ![t] = "idle"]
    /\ UNCHANGED << handle, poisoned, readers, live, calls >>

\* pop_history_n under the write guard: clear(), or split_off(n).
PopFront(t) ==
    /\ pc[t] = "locked"
    /\ LET q == history[handle[t]]
           o == origin[handle[t]]
           n == cur[t].n
       IN IF Len(q) < n
          THEN Prune(t, "pop_history_n", PopHistory(q, n), PopHistory(o, n))
          ELSE TakeNew(t, "pop_history_n", n, PopHistory(q, n), PopHistory(o, n))

\* shrink_history under the write guard: split_off(len - n), or nothing.
ShrinkToLast(t) ==
    /\ pc[t] = "locked"
    /\ LET q == history[handle[t]]
           o == origin[handle[t]]
           n == cur[t].n
       IN IF Len(q) > n
          THEN TakeNew(t, "shrink_history", Len(q) - n,
                       ShrinkHistoryTo(q, n), ShrinkHistoryTo(o, n))
          ELSE Prune(t, "shrink_history", ShrinkHistoryTo(q, n), ShrinkHistoryTo(o, n))

\* The calls under the write guard that allocate, and so can panic: push_back
\* when the buffer has to grow, split_off for the buffer it returns when that
\* buffer is not empty.
MayPanic(c, q) ==
    \/ c.op \in AllocOps
    \/ c.op = "pop_history_n" /\ Len(q) > c.n
    \/ c.op = "shrink_history" /\ Len(q) > c.n /\ c.n > 0

\* A panic while the write guard is held: the guard is dropped during the
\* unwinding, which poisons the lock; the log is as it was.  A block the
\* inner call had produced is lost to the caller.
WriterPanics(t) ==
    LET s == handle[t] IN
    /\ pc[t] = "locked"
    /\ MayPanic(cur[t], history[s])
    /\ poisoned' = [poisoned EXCEPT ![s] = TRUE]
    /\ Unlock(t)
    /\ Finish(t, Panicked)
    /\ live' = [a \in Addrs |->
                  IF cur[t].op \in AllocOps /\ cur[t].inner = Ok(a)
                  THEN [live[a] EXCEPT !.owner = NoThread] ELSE live[a]]
    /\ UNCHANGED << handle, history, origin, readers, calls >>

(* ------------------------ the pruning methods ------------------------- *)
BeginPrune(t, op, n) ==
    /\ CanStart(t)
    /\ cur' = [cur EXCEPT ![t] = [NoCall EXCEPT !.op = op, !.n = n]]
    /\ pc' = [pc EXCEPT ![t] = "write"]
    /\ calls' = [calls EXCEPT ![t] = @ + 1]
    /\ UNCHANGED << handle, storeVars, live >>

ClearHistory(t) == BeginPrune(t, "clear_history", 0)

PopHistoryN(t, n) == BeginPrune(t, "pop_history_n", n)

ShrinkHistory(t, n) == BeginPrune(t, "shrink_history", n)

(* ----------------------------- rendering ------------------------------ *)
\* fmt_layout: "{ size: S, align: A }"
FmtLayout(layout) == << "{ size: ", layout.size, ", align: ", layout.align, " }" >>

KindName(kind) ==
    CASE kind[1] = "Allocate" -> "allocate"
      [] kind[1] = "Deallocate" -> "deallocate"
      [] kind[1] = "AllocateZeroed" -> "allocate_zeroed"
      [] kind[1] = "Grow" -> "grow"
      [] kind[1] = "GrowZeroed" -> "grow_zeroed"
      [] kind[1] = "Shrink" -> "shrink"

\* A slip: Shrink is left out of the second match's resizing arm.
IsResizeGrowOnly(kind) == kind[1] \in { "Grow", "GrowZeroed" }

IsResize(kind) == Len(kind) = 2

\* impl Display for Action: the lines written, in order.  A line is its
\* label followed by what is formatted after it.
Display(action) ==
    << << KindName(action.kind) >> >>
    \o (IF IsResize(action.kind)
        THEN << << "old_layout: " >> \o FmtLayout(action.kind[2]) >>
        ELSE << >>)
    \o << << (IF IsResize(action.kind) THEN "new_layout: " ELSE "layout: ") >>
          \o FmtLayout(action.layout) >>
    \o << (IF IsSome(action.addr)
           THEN << "address: ", Unwrap(action.addr) >>
           ELSE << "address: Allocation Error" >>) >>

(* ------------------------- the reading methods ------------------------ *)

\* A slip: the log is printed without .rev().
DumpAllOutputOldestFirst(q) == [i \in 1..Len(q) |-> Display(q[i])]

\* history.iter().rev(), each entry printed
DumpAllOutput(q) == [i \in 1..Len(q) |-> Display(Reverse(q)[i])]

\* A slip: take(n) before rev(), the n oldest entries printed.
DumpNOutputTakeFirst(q, n) == [i \in 1..Min(n, Len(q)) |-> Display(Reverse(Take(q, n))[i])]

\* history.iter().rev().take(n), each entry printed
DumpNOutput(q, n) == [i \in 1..Min(n, Len(q)) |-> Display(Take(Reverse(q), n)[i])]

\* What read() on a poisoned lock leads to in history(): unwrap() panics.
OnPoisonedRead == Panicked

\* history(): self.history.read().unwrap(); the caller keeps the guard.
History(t) ==
    LET s == handle[t] IN
    /\ CanStart(t)
    /\ readers[s][t] < MaxViews
    /\ ReadAdmitted(s)
    /\ calls' = [calls EXCEPT ![t] = @ + 1]
    /\ IF poisoned[s]
       THEN /\ cur' = [cur EXCEPT ![t] = [NoCall EXCEPT !.op = "history", !.ret = OnPoisonedRead]]
            /\ UNCHANGED readers
       ELSE /\ cur' = [cur EXCEPT ![t] = [NoCall EXCEPT !.op = "history", !.ret = Unit]]
            /\ readers' = [readers EXCEPT ![s][t] = @ + 1]
    /\ UNCHANGED << handle, history, origin, poisoned, writer, live, pc >>

\* The caller drops a guard history() returned.
DropView(t) ==
    LET s == handle[t] IN
    /\ handle[t] # NoStore
    /\ pc[t] = "idle"
    /\ readers[s][t] > 0
    /\ readers' = [readers EXCEPT ![s][t] = @ - 1]
    /\ UNCHANGED << handle, history, origin, poisoned, writer, live, pc, cur, calls >>

\* dump_all_history / dump_n: `let history = self.history();`
BeginDump(t, op, n) ==
    LET s == handle[t] IN
    /\ CanStart(t)
    /\ ReadAdmitted(s)
    /\ calls' = [calls EXCEPT ![t] = @ + 1]
    /\ IF poisoned[s]
       THEN /\ cur' = [cur EXCEPT ![t] = [NoCall EXCEPT !.op = op, !.n = n, !.ret = OnPoisonedRead]]
            /\ UNCHANGED << readers, pc >>
       ELSE /\ cur' = [cur EXCEPT ![t] = [NoCall EXCEPT !.op = op, !.n = n]]
            /\ readers' = [readers EXCEPT ![s][t] = @ + 1]
            /\ pc' = [pc EXCEPT ![t] = "dumping"]
    /\ UNCHANGED << handle, history, origin, poisoned, writer, live >>

DumpAllHistory(t) == BeginDump(t, "dump_all_history", 0)

DumpN(t, n) == BeginDump(t, "dump_n", n)

\* The loop over the guard, then the guard is dropped.
EmitDump(t) ==
    LET s == handle[t] IN
    /\ pc[t] = "dumping"
    /\ cur' = [cur EXCEPT ![t].out =
                 IF cur[t].op = "dump_n" THEN DumpNOutput(history[s], cur[t].n)
                 ELSE DumpAllOutput(history[s]),
               ![t].ret = Unit]
    /\ pc' = [pc EXCEPT ![t] = "idle"]
    /\ readers' = [readers EXCEPT ![s][t] = @ - 1]
    /\ UNCHANGED << handle, history, origin, poisoned, writer, live, calls >>

\* poisoned(): self.history.is_poisoned(), which takes no lock.
IsPoisoned(t) ==
    /\ CanStart(t)
    /\ cur' = [cur EXCEPT ![t] = [NoCall EXCEPT !.op = "poisoned", !.ret = Bool(poisoned[handle[t]])]]
    /\ calls' = [calls EXCEPT ![t] = @ + 1]
    /\ UNCHANGED << handle, storeVars, live, pc >>

(* ------------------------------ handles ------------------------------- *)

\* A slip: the clone gets a log of its own (a deep copy in place of Arc::clone).
ArcCloneDeep(s, fresh) == fresh

\* #[derive(Clone)]: the clone's `history` is Arc::clone of the original's,
\* the same store.  `fresh` is a store no handle points to.
ArcClone(s, fresh) == s

\* let other = allocator.clone(), handed to a thread that has no handle yet.
Clone(t, u) ==
    /\ handle[t] # NoStore
    /\ handle[u] = NoStore
    /\ LET c == ArcClone(handle[t], u) IN
         /\ handle' = [handle EXCEPT ![u] = c]
         /\ history' = [history EXCEPT ![c] = history[handle[t]]]
         /\ origin' = [origin EXCEPT ![c] = origin[handle[t]]]
    /\ UNCHANGED << poisoned, writer, readers, live, pc, cur, calls >>

(* --------------------------- specification ---------------------------- *)
\* The model's budget of calls.
Budget(max) == Issued < max

\* The threads hold handles hs; store 1's log is q, left by earlier calls;
\* the inner allocator's blocks are lv.
InitWith(hs, q, lv) ==
    /\ handle = hs
    /\ history = [s \in Stores |-> IF s = 1 THEN q ELSE << >>]
    /\ origin = [s \in Stores |-> IF s = 1 THEN [i \in 1..Len(q) |-> << NoThread, i >>] ELSE << >>]
    /\ poisoned = [s \in Stores |-> FALSE]
    /\ writer = [s \in Stores |-> NoThread]
    /\ readers = [s \in Stores |-> [t \in Threads |-> 0]]
    /\ live = lv
    /\ pc = [t \in Threads |-> "idle"]
    /\ cur = [t \in Threads |-> NoCall]
    /\ calls = [t \in Threads |-> 0]

NoBlocks == [a \in Addrs |-> FreeBlock]

\* The inner allocator's blocks when the model starts: none, or one that
\* thread 1 got from an earlier allocate whose entry has been cleared since.
InitialBlocks == { NoBlocks, [NoBlocks EXCEPT ![1] = Block(1, Layout(32, 4))] }

AllShare == [t \in Threads |-> 1]

OnlyFirst == [t \in Threads |-> IF t = 1 THEN 1 ELSE NoStore]

\* DebugAlloc::new(alloc), cloned once for each thread, the log empty.
Init == InitWith(AllShare, << >>, NoBlocks)

\* Any threads, any calls.
Next ==
    \/ \E t \in Threads, l \in Layouts : Budget(MaxOps) /\ Allocate(t, l)
    \/ \E t \in Threads : Budget(MaxOps) /\ Deallocate(t)
    \/ \E t \in Threads, l \in Layouts : Budget(MaxOps) /\ AllocateZeroed(t, l)
    \/ \E t \in Threads : Budget(MaxOps) /\ Grow(t)
    \/ \E t \in Threads : Budget(MaxOps) /\ GrowZeroed(t)
    \/ \E t \in Threads : Budget(MaxOps) /\ Shrink(t)
    \/ \E t \in Threads : Budget(MaxOps) /\ ClearHistory(t)
    \/ \E t \in Threads, n \in 0..MaxN : Budget(MaxOps) /\ PopHistoryN(t, n)
    \/ \E t \in Threads, n \in 0..MaxN : Budget(MaxOps) /\ ShrinkHistory(t, n)
    \/ \E t \in Threads : Budget(MaxOps) /\ History(t)
    \/ \E t \in Threads : Budget(MaxOps) /\ DumpAllHistory(t)
    \/ \E t \in Threads, n \in 0..MaxN : Budget(MaxOps) /\ DumpN(t, n)
    \/ \E t \in Threads : Budget(MaxOps) /\ IsPoisoned(t)
    \/ \E t \in Threads : WriteLock(t)
    \/ \E t \in Threads : PushBack(t)
    \/ \E t \in Threads : WriterPanics(t)
    \/ \E t \in Threads : Clear(t)
    \/ \E t \in Threads : PopFront(t)
    \/ \E t \in Threads : ShrinkToLast(t)
    \/ \E t \in Threads : Replace(t)
    \/ \E t \in Threads : EmitDump(t)
    \/ \E t \in Threads : DropView(t)

Spec == Init /\ [][Next]_vars

\* The six Allocator methods from any threads, on a log that a panic under
\* the write guard may poison.
InitAlloc == \E lv \in InitialBlocks : InitWith(AllShare, << >>, lv)

NextAlloc ==
    \/ \E t \in Threads, l \in Layouts : Budget(AllocOpsMax) /\ Allocate(t, l)
    \/ \E t \in Threads : Budget(AllocOpsMax) /\ Deallocate(t)
    \/ \E t \in Threads, l \in Layouts : Budget(AllocOpsMax) /\ AllocateZeroed(t, l)
    \/ \E t \in Threads : Budget(AllocOpsMax) /\ Grow(t)
    \/ \E t \in Threads : Budget(AllocOpsMax) /\ GrowZeroed(t)
    \/ \E t \in Threads : Budget(AllocOpsMax) /\ Shrink(t)
    \/ \E t \in Threads : WriteLock(t)
    \/ \E t \in Threads : PushBack(t)
    \/ \E t \in Threads : WriterPanics(t)

SpecAlloc == InitAlloc /\ [][NextAlloc]_vars

\* N threads, each issuing ConcCalls allocate calls through its clone of one
\* DebugAlloc; no pruning, no panic.
ConcLayout == Layout(16, 4)

InitConc == InitWith(AllShare, << >>, NoBlocks)

NextConc ==
    \/ \E t \in Threads : calls[t] < ConcCalls /\ Allocate(t, ConcLayout)
    \/ \E t \in Threads : WriteLock(t)
    \/ \E t \in Threads : PushBack(t)

SpecConc == InitConc /\ [][NextConc]_vars

\* One thread issuing allocate, deallocate and dump_all_history.
InitSeq == InitWith(OnlyFirst, << >>, NoBlocks)

NextSeq ==
    \/ \E t \in Threads, l \in Layouts : Budget(SeqOps) /\ Allocate(t, l)
    \/ \E t \in Threads : Budget(SeqOps) /\ Deallocate(t)
    \/ \E t \in Threads : Budget(SeqOps) /\ DumpAllHistory(t)
    \/ \E t \in Threads : WriteLock(t)
    \/ \E t \in Threads : PushBack(t)
    \/ \E t \in Threads : EmitDump(t)

SpecSeq == InitSeq /\ [][NextSeq]_vars

\* One DebugAlloc, cloned for the other threads as the run goes; appends and
\* prunes through any handle.
InitClone == InitWith(OnlyFirst, << >>, NoBlocks)

NextClone ==
    \/ \E t, u \in Threads : Clone(t, u)
    \/ \E t \in Threads, l \in Layouts : Budget(CloneOps) /\ Allocate(t, l)
    \/ \E t \in Threads : Budget(CloneOps) /\ ClearHistory(t)
    \/ \E t \in Threads, n \in 0..MaxN : Budget(CloneOps) /\ PopHistoryN(t, n)
    \/ \E t \in Threads, n \in 0..MaxN : Budget(CloneOps) /\ ShrinkHistory(t, n)
    \/ \E t \in Threads : WriteLock(t)
    \/ \E t \in Threads : PushBack(t)
    \/ \E t \in Threads : Clear(t)
    \/ \E t \in Threads : PopFront(t)
    \/ \E t \in Threads : ShrinkToLast(t)
    \/ \E t \in Threads : Replace(t)

SpecClone == InitClone /\ [][NextClone]_vars

\* The entries of the logs the tooling methods are run on: failed allocate
\* and allocate_zeroed calls, which can follow each other in any order.
LogEntries ==
    { AllocateAction(Err, l) : l \in Layouts } \cup { AllocateZeroedAction(Err, l) : l \in Layouts }

RECURSIVE SeqsUpTo(_, _)
SeqsUpTo(S, n) ==
    IF n = 0 THEN { << >> }
    ELSE LET shorter == SeqsUpTo(S, n - 1)
         IN shorter \cup { Append(q, x) : q \in { r \in shorter : Len(r) = n - 1 }, x \in S }

Logs == SeqsUpTo(LogEntries, MaxLen)

\* One thread running the tooling methods on a log of up to MaxLen entries.
InitTools == \E q \in Logs : InitWith(OnlyFirst, q, NoBlocks)

NextTools ==
    \/ \E t \in Threads : Budget(ToolOps) /\ ClearHistory(t)
    \/ \E t \in Threads, n \in 0..(MaxLen + 1) : Budget(ToolOps) /\ PopHistoryN(t, n)
    \/ \E t \in Threads, n \in 0..(MaxLen + 1) : Budget(ToolOps) /\ ShrinkHistory(t, n)
    \/ \E t \in Threads : Budget(ToolOps) /\ DumpAllHistory(t)
    \/ \E t \in Threads, n \in 0..(MaxLen + 1) : Budget(ToolOps) /\ DumpN(t, n)
    \/ \E t \in Threads : WriteLock(t)
    \/ \E t \in Threads : Clear(t)
    \/ \E t \in Threads : PopFront(t)
    \/ \E t \in Threads : ShrinkToLast(t)
    \/ \E t \in Threads : Replace(t)
    \/ \E t \in Threads : EmitDump(t)

SpecTools == InitTools /\ [][NextTools]_vars

\* The entries the six methods can leave in a log: every kind, with and
\* without an address.
RenderEntries ==
    LET results == { Err } \cup { Ok(a) : a \in Addrs } IN
    { AllocateAction(r, l) : r \in results, l \in Layouts }
    \cup { AllocateZeroedAction(r, l) : r \in results, l \in Layouts }
    \cup { DeallocateAction(a, l) : a \in Addrs, l \in Layouts }
    \cup UNION { { GrowAction(r, o, l) : r \in results, l \in { x \in Layouts : x.size >= o.size } } :
                   o \in Layouts }
    \cup UNION { { GrowZeroedAction(r, o, l) : r \in results, l \in { x \in Layouts : x.size >= o.size } } :
                   o \in Layouts }
    \cup UNION { { ShrinkAction(r, o, l) : r \in results, l \in { x \in Layouts : x.size <= o.size } } :
                   o \in Layouts }

\* The inner allocator's blocks when entry e is the last a thread's calls left.
BlocksOf(e) ==
    IF IsSome(e.addr) /\ e.kind # KindDeallocate
    THEN [NoBlocks EXCEPT ![Unwrap(e.addr)] = Block(1, e.layout)]
    ELSE NoBlocks

\* One thread printing a log that holds one entry (what shrink_history(1)
\* leaves of a longer one).
InitRender == \E e \in RenderEntries : InitWith(OnlyFirst, << e >>, BlocksOf(e))

NextRender ==
    \/ \E t \in Threads : Budget(RenderOps) /\ DumpAllHistory(t)
    \/ \E t \in Threads, n \in 0..1 : Budget(RenderOps) /\ DumpN(t, n)
    \/ \E t \in Threads : EmitDump(t)

SpecRender == InitRender /\ [][NextRender]_vars

\* One thread, every method of DebugAlloc, in any order.
InitFrame == InitWith(OnlyFirst, << >>, NoBlocks)

NextFrame ==
    \/ \E t \in Threads, l \in Layouts : Budget(FrameOps) /\ Allocate(t, l)
    \/ \E t \in Threads : Budget(FrameOps) /\ Deallocate(t)
    \/ \E t \in Threads, l \in Layouts : Budget(FrameOps) /\ AllocateZeroed(t, l)
    \/ \E t \in Threads : Budget(FrameOps) /\ Grow(t)
    \/ \E t \in Threads : Budget(FrameOps) /\ GrowZeroed(t)
    \/ \E t \in Threads : Budget(FrameOps) /\ Shrink(t)
    \/ \E t \in Threads : Budget(FrameOps) /\ ClearHistory(t)
    \/ \E t \in Threads, n \in 0..MaxN : Budget(FrameOps) /\ PopHistoryN(t, n)
    \/ \E t \in Threads, n \in 0..MaxN : Budget(FrameOps) /\ ShrinkHistory(t, n)
    \/ \E t \in Threads : Budget(FrameOps) /\ History(t)
    \/ \E t \in Threads : Budget(FrameOps) /\ DumpAllHistory(t)
    \/ \E t \in Threads, n \in 0..MaxN : Budget(FrameOps) /\ DumpN(t, n)
    \/ \E t \in Threads : Budget(FrameOps) /\ IsPoisoned(t)
    \/ \E t \in Threads : WriteLock(t)
    \/ \E t \in Threads : PushBack(t)
    \/ \E t \in Threads : WriterPanics(t)
    \/ \E t \in Threads : Clear(t)
    \/ \E t \in Threads : PopFront(t)
    \/ \E t \in Threads : ShrinkToLast(t)
    \/ \E t \in Threads : Replace(t)
    \/ \E t \in Threads : EmitDump(t)
    \/ \E t \in Threads : DropView(t)

SpecFrame == InitFrame /\ [][NextFrame]_vars

\* Threads that share one DebugAlloc, appending and pruning at the same time.
InitAtomic == InitWith(AllShare, << >>, NoBlocks)

NextAtomic ==
    \/ \E t \in Threads : Budget(AtomicOps) /\ Allocate(t, ConcLayout)
    \/ \E t \in Threads : Budget(AtomicOps) /\ ClearHistory(t)
    \/ \E t \in Threads, n \in 0..MaxN : Budget(AtomicOps) /\ PopHistoryN(t, n)
    \/ \E t \in Threads, n \in 0..MaxN : Budget(AtomicOps) /\ ShrinkHistory(t, n)
    \/ \E t \in Threads : WriteLock(t)
    \/ \E t \in Threads : PushBack(t)
    \/ \E t \in Threads : Clear(t)
    \/ \E t \in Threads : PopFront(t)
    \/ \E t \in Threads : ShrinkToLast(t)
    \/ \E t \in Threads : Replace(t)

SpecAtomic == InitAtomic /\ [][NextAtomic]_vars

\* Threads that share one DebugAlloc, allocating and freeing blocks of one
\* layout; no pruning, no panic.
InitOrder == InitWith(AllShare, << >>, NoBlocks)

NextOrder ==
    \/ \E t \in Threads : Budget(OrderOps) /\ Allocate(t, ConcLayout)
    \/ \E t \in Threads : Budget(OrderOps) /\ Deallocate(t)
    \/ \E t \in Threads : WriteLock(t)
    \/ \E t \in Threads : PushBack(t)

SpecOrder == InitOrder /\ [][NextOrder]_vars

(* ====================================================================== *)
(*                               the claims                               *)
(* ====================================================================== *)
Last(q) == q[Len(q)]

\* Thread t's call `op` returns in this step.
ReturnsFrom(t, op) == pc[t] # "idle" /\ pc'[t] = "idle" /\ cur'[t].op = op

\* Thread t moves in this step.
Moves(t) == << pc[t], cur[t] >> # << pc'[t], cur'[t] >>

\* The positions of the log of t's store that hold the entry of t's current call.
OwnEntries(t) ==
    { i \in 1..Len(origin[handle[t]]) : origin[handle[t]][i] = << t, calls[t] >> }

\* The log as the critical section of thread t's call found it: between
\* split_off and the assignment of `new`, what the log held before split_off.
Found(t) == IF pc[t] = "replacing" THEN cur[t].found ELSE history[handle[t]]

\* The log of store s as the lock lets it be seen.  Between split_off and
\* the assignment of `new` the write guard is held and nothing can look at
\* the log; it then counts as what the pruning call found.
Visible(s) ==
    IF \E t \in Threads : handle[t] = s /\ pc[t] = "replacing"
    THEN cur[CHOOSE t \in Threads : handle[t] = s /\ pc[t] = "replacing"].found
    ELSE history[s]

\* C1: each of the six methods calls the inner allocator exactly once, with
\* the arguments its caller gave, and a call that returns returns the inner
\* allocator's result, whatever the log holds and whether or not it was
\* poisoned.
C1_PassThrough ==
    \A t \in Threads : cur[t].op \in AllocOps =>
        /\ Len(cur[t].passed) = 1
        /\ cur[t].passed[1] = [op |-> cur[t].op, ptr |-> cur[t].ptr,
                               old |-> cur[t].old, layout |-> cur[t].layout]
        /\ cur[t].inner.tag \in { "Ok", "Err", "Unit" }
        /\ cur[t].ret.tag \notin { "Pending", "Panic" } => cur[t].ret = cur[t].inner

\* A grow has returned its new address although the log is poisoned and
\* holds nothing.
C1_Witness ==
    \E t \in Threads :
        /\ cur[t].op = "grow" /\ pc[t] = "idle" /\ cur[t].ret.tag = "Ok"
        /\ poisoned[handle[t]] /\ history[handle[t]] = << >>

\* C2: the entry a call of allocate, allocate_zeroed, grow, grow_zeroed or
\* shrink pushed has an address exactly when the inner call succeeded, and
\* then the address the inner call returned; the entry a deallocate pushed
\* has the address being freed.  A failed allocate that returned, returned
\* the failure.
C2_RecordedAddr ==
    \A t \in Threads : cur[t].op \in AllocOps =>
        /\ \A i \in OwnEntries(t) :
             LET e == history[handle[t]][i] IN
             IF cur[t].op = "deallocate"
             THEN IsSome(cur[t].ptr) /\ e.addr = cur[t].ptr
             ELSE /\ IsSome(e.addr) <=> cur[t].inner.tag = "Ok"
                  /\ cur[t].inner.tag = "Ok" => e.addr = << cur[t].inner.addr >>
        /\ (cur[t].op = "allocate" /\ cur[t].inner.tag = "Err" /\ pc[t] = "idle"
              /\ cur[t].ret.tag # "Panic") => cur[t].ret.tag = "Err"

\* A failed allocate has returned the failure and its entry has no address.
C2_Witness ==
    \E t \in Threads :
        /\ cur[t].op = "allocate" /\ pc[t] = "idle" /\ cur[t].ret.tag = "Err"
        /\ \E i \in OwnEntries(t) : history[handle[t]][i].addr = None

\* The entry a successful allocate(layout) is said to leave.
AllocateEntry(c) == Action(<< c.ret.addr >>, Unwrap(c.layout), KindAllocate)

\* C3 as stated: whenever a successful allocate returns, the newest entry of
\* the log is its Allocate entry.
C3_NewestIsAllocate ==
    [][\A t \in Threads :
         (ReturnsFrom(t, "allocate") /\ cur'[t].ret.tag = "Ok") =>
            /\ history'[handle[t]] # << >>
            /\ Last(history'[handle[t]]) = AllocateEntry(cur'[t])]_vars

\* C3, amended: whenever a successful allocate returns on a log that is not
\* poisoned, the newest entry of the log is its Allocate entry, with the
\* returned address and the requested layout.
C3_NewestIsAllocateUnlessPoisoned ==
    [][\A t \in Threads :
         (ReturnsFrom(t, "allocate") /\ cur'[t].ret.tag = "Ok" /\ ~poisoned[handle[t]]) =>
            /\ history'[handle[t]] # << >>
            /\ Last(history'[handle[t]]) = AllocateEntry(cur'[t])]_vars

\* A successful allocate has returned on a healthy log and its entry is the
\* newest.
C3_Witness ==
    \E t \in Threads :
        /\ cur[t].op = "allocate" /\ pc[t] = "idle" /\ cur[t].ret.tag = "Ok"
        /\ ~poisoned[handle[t]]
        /\ Len(history[handle[t]]) > 1
        /\ Len(history[handle[t]]) \in OwnEntries(t)
        /\ Last(history[handle[t]]) = AllocateEntry(cur[t])

\* A thread that stands at write() while it holds a read guard of the same
\* lock waits for a guard only it can drop, and it drops none while it
\* waits: it is blocked for ever.
BlockedForever(t) == pc[t] = "write" /\ readers[handle[t]][t] > 0

\* C5: no thread is ever blocked for ever on the lock, also when it calls an
\* allocation or pruning method while it holds a guard from history().
C5_NoThreadBlockedForever == \A t \in Threads : ~BlockedForever(t)

ToolingOps == { "history" } \cup DumpOps \cup PruneOps

\* C6: history(), dump_all_history, dump_n, clear_history, pop_history_n and
\* shrink_history never end in a panic, poisoned lock or not.
C6_ToolingNeverPanics ==
    \A t \in Threads : cur[t].op \in ToolingOps => cur[t].ret.tag # "Panic"

\* C7: on a poisoned lock, no step of any of the six methods changes the
\* log or panics, and the method returns the inner allocator's result.
C7_DegradedSkipsAppend ==
    [][\A t \in Threads :
         (cur'[t].op \in AllocOps /\ poisoned[handle[t]] /\ Moves(t)) =>
            /\ history' = history
            /\ origin' = origin
            /\ cur'[t].ret.tag # "Panic"
            /\ pc'[t] \in { "write", "idle" }
            /\ pc'[t] = "idle" =>
                 cur'[t].ret = cur'[t].inner /\ cur'[t].ret.tag \in { "Ok", "Err", "Unit" }]_vars

\* A deallocate has returned on a poisoned log, which does not hold its entry.
C7_Witness ==
    \E t \in Threads :
        /\ poisoned[handle[t]] /\ pc[t] = "idle"
        /\ cur[t].op = "deallocate" /\ cur[t].ret = Unit
        /\ OwnEntries(t) = {}

\* The entries of one thread stand in the log in the order of its calls.
InIssueOrder(o) ==
    \A i, j \in 1..Len(o) : (i < j /\ o[i][1] = o[j][1]) => o[i][2] < o[j][2]

\* Every thread has issued its ConcCalls calls and all have returned.
AllReturned == \A t \in Threads : pc[t] = "idle" /\ calls[t] = ConcCalls

\* C4: with N threads each issuing M allocate calls through one shared
\* DebugAlloc, once all calls have returned the log holds N*M entries, one
\* for every call, and at any time the entries of one thread stand in the
\* order that thread issued them.
C4_NoLostAppend ==
    /\ InIssueOrder(origin[1])
    /\ AllReturned =>
         /\ Len(history[1]) = NThreads * ConcCalls
         /\ \A t \in Threads, k \in 1..ConcCalls :
              \E i \in 1..Len(origin[1]) : origin[1][i] = << t, k >>

\* All calls have returned and the entries of two threads alternate in the log.
C4_Witness ==
    /\ AllReturned
    /\ origin[1][1][1] # origin[1][2][1]
    /\ origin[1][2][1] # origin[1][3][1]

\* What dump_all_history is to print for log q: every entry, newest first.
NewestFirst(q) == [i \in 1..Len(q) |-> Display(q[Len(q) + 1 - i])]

\* C8: the entries of one thread stand in the log in the order of its calls,
\* oldest first, and dump_all_history prints every entry, newest first: its
\* output is the log reversed.
C8_IssueOrderAndDumpAll ==
    /\ InIssueOrder(origin[1])
    /\ \A t \in Threads :
         (cur[t].op = "dump_all_history" /\ pc[t] = "idle" /\ cur[t].ret = Unit) =>
            cur[t].out = NewestFirst(history[handle[t]])

\* allocate(L1), deallocate(L1), allocate(L2), then dump_all_history, which
\* has printed Allocate(L2), Deallocate(L1), Allocate(L1).
C8_Witness ==
    /\ cur[1].op = "dump_all_history" /\ pc[1] = "idle"
    /\ history[1] = << Action(Some(1), Layout(16, 4), KindAllocate),
                       Action(Some(1), Layout(16, 4), KindDeallocate),
                       Action(Some(1), Layout(32, 4), KindAllocate) >>
    /\ cur[1].out = << Display(Action(Some(1), Layout(32, 4), KindAllocate)),
                       Display(Action(Some(1), Layout(16, 4), KindDeallocate)),
                       Display(Action(Some(1), Layout(16, 4), KindAllocate)) >>

\* C9: the handles made by cloning share one store: what is appended or
\* pruned through one handle is what every other handle shows.
C9_ClonesShareStore ==
    \A t, u \in Threads :
        (handle[t] # NoStore /\ handle[u] # NoStore) =>
            history[handle[t]] = history[handle[u]]

\* Thread 2 has appended through its clone, thread 1 has pruned through the
\* original, and thread 1's handle shows what is left.
C9_Witness ==
    /\ handle[1] # NoStore /\ handle[2] # NoStore
    /\ cur[2].op = "allocate" /\ pc[2] = "idle" /\ cur[2].ret.tag # "Pending"
    /\ cur[1].op = "clear_history" /\ pc[1] = "idle" /\ cur[1].ret = Unit
    /\ \E i \in 1..Len(origin[handle[1]]) : origin[handle[1]][i][1] = 2

\* C10: pop_history_n(n) removes the oldest min(n, len) entries and leaves
\* the others in their order; for n >= len nothing is left, as after
\* clear_history, which leaves nothing whatever the log held.
C10_PopFront ==
    [][\A t \in Threads :
         /\ ReturnsFrom(t, "pop_history_n") =>
              LET q == Found(t)
                  k == Min(cur[t].n, Len(q))
              IN /\ cur'[t].ret = Unit
                 /\ history'[handle[t]] = [i \in 1..(Len(q) - k) |-> q[i + k]]
                 /\ cur[t].n >= Len(q) => history'[handle[t]] = << >>
         /\ ReturnsFrom(t, "clear_history") =>
              cur'[t].ret = Unit /\ history'[handle[t]] = << >>]_vars

\* pop_history_n(2) has left the last entry of a log of three.
C10_Witness ==
    /\ cur[1].op = "pop_history_n" /\ cur[1].n = 2 /\ pc[1] = "idle" /\ cur[1].ret = Unit
    /\ Len(history[1]) = 1
    /\ origin[1] = << << NoThread, 3 >> >>

\* C11: shrink_history(n) on a log of length len keeps the newest
\* min(n, len) entries in their order and drops all older ones; for
\* len <= n the log is as it was, and n = 0 leaves nothing.
C11_ShrinkToLast ==
    [][\A t \in Threads :
         ReturnsFrom(t, "shrink_history") =>
            LET q == Found(t)
                k == Min(cur[t].n, Len(q))
            IN /\ cur'[t].ret = Unit
               /\ history'[handle[t]] = [i \in 1..k |-> q[Len(q) - k + i]]
               /\ Len(q) <= cur[t].n => history'[handle[t]] = q
               /\ cur[t].n = 0 => history'[handle[t]] = << >>]_vars

\* shrink_history(1) has left the last entry of a log of three.
C11_Witness ==
    /\ cur[1].op = "shrink_history" /\ cur[1].n = 1 /\ pc[1] = "idle" /\ cur[1].ret = Unit
    /\ Len(history[1]) = 1
    /\ origin[1] = << << NoThread, 3 >> >>
    /\ calls[1] = 1

\* What dump_n(n) is to print for log q: the newest min(n, len) entries,
\* newest first.
NewestFirstN(q, n) == [i \in 1..Min(n, Len(q)) |-> Display(q[Len(q) + 1 - i])]

\* C12: dump_n(n) prints the min(n, len) newest entries, newest first,
\* nothing when the log is empty or n = 0, and no step of it changes the log.
C12_DumpN ==
    [][\A t \in Threads :
         (cur'[t].op = "dump_n" /\ Moves(t)) =>
            /\ history' = history
            /\ ReturnsFrom(t, "dump_n") =>
                 LET q == history[handle[t]]
                     n == cur[t].n
                 IN /\ cur'[t].ret = Unit
                    /\ cur'[t].out = NewestFirstN(q, n)
                    /\ Len(cur'[t].out) = Min(n, Len(q))
                    /\ (n = 0 \/ q = << >>) => cur'[t].out = << >>]_vars

\* dump_n(2) has printed the two newest entries of a log of three different
\* entries, the newest first.
C12_Witness ==
    /\ cur[1].op = "dump_n" /\ cur[1].n = 2 /\ pc[1] = "idle" /\ cur[1].ret = Unit
    /\ Len(history[1]) = 3
    /\ history[1][2] # history[1][3] /\ history[1][1] # history[1][2]
    /\ cur[1].out = << Display(history[1][3]), Display(history[1][2]) >>

\* The kind the entry of call c is said to have: the variant named after the
\* method, with the old layout of the call for grow, grow_zeroed and shrink
\* and nothing for the others.
KindOfCall(c) ==
    CASE c.op = "allocate" -> << "Allocate" >>
      [] c.op = "deallocate" -> << "Deallocate" >>
      [] c.op = "allocate_zeroed" -> << "AllocateZeroed" >>
      [] c.op = "grow" -> << "Grow", Unwrap(c.old) >>
      [] c.op = "grow_zeroed" -> << "GrowZeroed", Unwrap(c.old) >>
      [] c.op = "shrink" -> << "Shrink", Unwrap(c.old) >>

ResizeTags == { "Grow", "GrowZeroed", "Shrink" }

\* C13: the entry of a call has the layout passed to the call (for grow,
\* grow_zeroed and shrink the new one) and the kind of the method called,
\* which carries the old layout for these three and nothing for allocate,
\* allocate_zeroed and deallocate; every entry of the log has a payload
\* exactly when its kind is one of the three.
C13_RecordedKindAndLayout ==
    /\ \A t \in Threads : cur[t].op \in AllocOps =>
          \A i \in OwnEntries(t) :
             LET e == history[handle[t]][i] IN
             /\ e.layout = Unwrap(cur[t].layout)
             /\ e.kind = KindOfCall(cur[t])
             /\ IsSome(cur[t].old) <=> cur[t].op \in { "grow", "grow_zeroed", "shrink" }
    /\ \A s \in Stores : \A i \in 1..Len(history[s]) :
          LET k == history[s][i].kind IN
          /\ Len(k) \in { 1, 2 }
          /\ Len(k) = 2 <=> k[1] \in ResizeTags

\* A grow from 16 to 32 bytes has returned and its entry has the layout of
\* 32 bytes and the kind Grow with the layout of 16 bytes.
C13_Witness ==
    \E t \in Threads :
        /\ cur[t].op = "grow" /\ pc[t] = "idle"
        /\ cur[t].old = Some(Layout(16, 4)) /\ cur[t].layout = Some(Layout(32, 4))
        /\ \E i \in OwnEntries(t) :
             /\ history[handle[t]][i].layout = Layout(32, 4)
             /\ history[handle[t]][i].kind = << "Grow", Layout(16, 4) >>

\* The operation-name line of each kind.
OperationName ==
    [k \in { "Allocate", "Deallocate", "AllocateZeroed", "Grow", "GrowZeroed", "Shrink" } |->
       CASE k = "Allocate" -> "allocate"
         [] k = "Deallocate" -> "deallocate"
         [] k = "AllocateZeroed" -> "allocate_zeroed"
         [] k = "Grow" -> "grow"
         [] k = "GrowZeroed" -> "grow_zeroed"
         [] k = "Shrink" -> "shrink"]

\* `label{ size: S, align: A }`
LayoutLine(label, layout) ==
    << label, "{ size: ", layout.size, ", align: ", layout.align, " }" >>

\* lines is the rendering entry e is said to have.
RendersAs(lines, e) ==
    LET resizing == e.kind[1] \in ResizeTags
        last == IF resizing THEN 4 ELSE 3
    IN /\ Len(lines) = last
       /\ lines[1] = << OperationName[e.kind[1]] >>
       /\ resizing => lines[2] = LayoutLine("old_layout: ", e.kind[2])
       /\ lines[last - 1] =
             LayoutLine(IF resizing THEN "new_layout: " ELSE "layout: ", e.layout)
       /\ Len(lines[last]) = (IF IsSome(e.addr) THEN 2 ELSE 1)
       /\ lines[last] = (IF IsSome(e.addr) THEN << "address: ", e.addr[1] >>
                         ELSE << "address: Allocation Error" >>)

\* C14: an entry is printed as the operation-name line, then for grow,
\* grow_zeroed and shrink only the `old_layout:` line of the payload, then
\* the entry's layout under `layout:` (under `new_layout:` for the three),
\* then `address: <address>`, or `address: Allocation Error` when the entry
\* has no address.
C14_Rendering ==
    \A t \in Threads :
        (cur[t].op \in DumpOps /\ pc[t] = "idle" /\ cur[t].ret = Unit) =>
            LET q == history[handle[t]] IN
            \A i \in 1..Len(cur[t].out) : RendersAs(cur[t].out[i], q[Len(q) + 1 - i])

\* Grow from {16, 4} to {32, 4} with an address has been printed as grow,
\* old_layout {16, 4}, new_layout {32, 4}, address.
C14_Witness ==
    \E t \in Threads, a \in Addrs :
        /\ cur[t].op \in DumpOps /\ pc[t] = "idle"
        /\ history[handle[t]] = << Action(Some(a), Layout(32, 4), KindGrow(Layout(16, 4))) >>
        /\ cur[t].out = << << << "grow" >>,
                              << "old_layout: ", "{ size: ", 16, ", align: ", 4, " }" >>,
                              << "new_layout: ", "{ size: ", 32, ", align: ", 4, " }" >>,
                              << "address: ", a >> >> >>

\* The threads inside a critical section of store s: past write(), the
\* write guard not yet dropped.
Writing(s) == { t \in Threads : handle[t] = s /\ pc[t] \in { "locked", "replacing" } }

\* The threads that hold a read guard of store s: a view from history(), or
\* a dump in progress.
Reading(s) == { t \in Threads : readers[s][t] > 0 }

SingleWriterOrReaders ==
    \A s \in Stores :
        /\ Cardinality(Writing(s)) <= 1
        /\ Writing(s) # {} => Reading(s) = {}
        /\ \A t \in Writing(s) : writer[s] = t
        /\ \A t \in Threads : (handle[t] = s /\ pc[t] = "dumping") => t \in Reading(s)

\* C15: an append or a pruning is inside its critical section only while no
\* other thread is and no read guard is held, read guards of several threads
\* may be held together, and no step changes a log of which a read guard is
\* held.
C15_SingleWriterMultipleReaders ==
    /\ []SingleWriterOrReaders
    /\ [][\A s \in Stores : Reading(s) # {} => history'[s] = history[s]]_vars

\* Two threads hold read guards of one log at the same time, one a view
\* from history(), the other inside a dump.
C15_Witness ==
    \E s \in Stores, t, u \in Threads :
        /\ t # u
        /\ { t, u } \subseteq Reading(s)
        /\ cur[t].op = "history" /\ pc[u] = "dumping"

\* The addresses the inner allocator has given out and not taken back.
LiveAddrs(lv) == { a \in Addrs : ~IsFree(lv, a) }

\* C16: in each of the six methods the inner call is made first, without the
\* write guard, and its result is kept before the method asks for the guard;
\* nothing is appended before that, the append or the skip comes after it
\* and before the method returns, and no later step calls the inner
\* allocator again or changes the kept result.
C16_StepOrdering ==
    [][\A t \in Threads :
         (cur'[t].op \in AllocOps /\ Moves(t)) =>
            LET s == handle[t] IN
            IF pc[t] = "idle"
            THEN \* the step that calls the inner allocator
                 /\ writer[s] # t /\ writer'[s] # t
                 /\ Len(cur'[t].passed) = 1
                 /\ cur'[t].inner.tag \in { "Ok", "Err", "Unit" }
                 /\ pc'[t] = "write"
                 /\ history' = history
            ELSE \* the steps from write() on
                 /\ cur'[t].inner = cur[t].inner
                 /\ cur'[t].passed = cur[t].passed
                 /\ LiveAddrs(live') = LiveAddrs(live)
                 /\ history'[s] # history[s] => (pc[t] = "locked" /\ writer[s] = t)
                 /\ pc[t] = "write" =>
                      \/ pc'[t] = "locked" /\ writer'[s] = t /\ history' = history
                      \/ pc'[t] = "idle" /\ poisoned[s] /\ history' = history
                 /\ pc[t] = "locked" =>
                      /\ pc'[t] = "idle" /\ writer'[s] = NoThread
                      /\ \/ /\ Len(history'[s]) = Len(history[s]) + 1
                            /\ SubSeq(history'[s], 1, Len(history[s])) = history[s]
                         \/ cur'[t].ret = Panicked /\ history' = history]_vars

\* A shrink has gone through its steps: its inner call moved the block, its
\* entry was appended, and it has returned the new address.
C16_Witness ==
    \E t \in Threads :
        /\ cur[t].op = "shrink" /\ pc[t] = "idle"
        /\ cur[t].ret.tag = "Ok" /\ cur[t].ret = cur[t].inner
        /\ << cur[t].ret.addr >> # cur[t].ptr
        /\ OwnEntries(t) = { Len(history[handle[t]]) }
        /\ writer[handle[t]] = NoThread

\* a is what is left of b when some of its oldest entries are removed.
IsSuffix(a, b) == Len(a) <= Len(b) /\ a = SubSeq(b, Len(b) - Len(a) + 1, Len(b))

\* b is a with one entry appended.
IsAppend(a, b) == Len(b) = Len(a) + 1 /\ SubSeq(b, 1, Len(a)) = a

ReadingOps == { "history", "dump_all_history", "dump_n", "poisoned" }

\* C17: every step leaves each log, as the lock lets it be seen, as it was,
\* or with one entry appended at the back (a step of one of the six
\* Allocator methods), or cut down to one of its suffixes (a step of
\* clear_history, pop_history_n or shrink_history); the six methods never
\* remove an entry, and history(), the dumps and poisoned() never change a
\* log.
C17_AppendOrRemovePrefix ==
    [][\A s \in Stores :
         LET q == Visible(s)
             r == Visible(s)'
         IN /\ \/ r = q
               \/ IsAppend(q, r) /\ \E t \in Threads : Moves(t) /\ cur[t].op \in AllocOps
               \/ /\ IsSuffix(r, q) /\ Len(r) < Len(q)
                  /\ \E t \in Threads : Moves(t) /\ cur[t].op \in PruneOps
            /\ \A t \in Threads :
                 (Moves(t) /\ handle[t] = s) =>
                    /\ cur'[t].op \in AllocOps => (r = q \/ IsAppend(q, r))
                    /\ cur'[t].op \in ReadingOps => r = q]_vars

\* Two calls have appended an entry each and pop_history_n(1) has left the
\* second of them.
C17_Witness ==
    /\ cur[1].op = "pop_history_n" /\ cur[1].n = 1 /\ pc[1] = "idle" /\ cur[1].ret = Unit
    /\ calls[1] = 3
    /\ origin[1] = << << 1, 2 >> >>

\* C18: a poisoned lock stays poisoned whatever is called, from then on
\* poisoned() reports true, and no step of the six Allocator methods (nor
\* any other step) adds an entry to its log: the calls made after the
\* poisoning leave no entry.
C18_DegradationPermanent ==
    [][\A s \in Stores :
         poisoned[s] =>
            /\ poisoned'[s]
            /\ Len(history'[s]) <= Len(history[s])
            /\ \A t \in Threads :
                 (handle[t] = s /\ Moves(t)) =>
                    /\ cur'[t].op = "poisoned" => cur'[t].ret = Bool(TRUE)
                    /\ cur'[t].op \in AllocOps =>
                         history' = history /\ OwnEntries(t)' = {}]_vars

\* A panic has poisoned the lock, an allocation made after it has returned
\* its block and left no entry (the log is empty), and poisoned(), called
\* after both, has reported true.
C18_Witness ==
    \E t \in Threads :
        /\ handle[t] # NoStore
        /\ poisoned[handle[t]]
        /\ cur[t].op = "poisoned" /\ cur[t].ret = Bool(TRUE)
        /\ calls[t] = 3
        /\ history[handle[t]] = << >>
        /\ Owned(t) # {}

\* v without its k oldest entries.
DropOldest(v, k) == [i \in 1..(Len(v) - k) |-> v[i + k]]

\* The k newest entries of v.
KeepNewest(v, k) == [i \in 1..k |-> v[Len(v) - k + i]]

\* What call c does to log v when it runs alone; r is the log after it.
RunAlone(c, v, r) ==
    CASE c.op \in AllocOps -> IsAppend(v, r)
      [] c.op = "clear_history" -> r = << >>
      [] c.op = "pop_history_n" -> r = DropOldest(v, Min(c.n, Len(v)))
      [] c.op = "shrink_history" -> r = KeepNewest(v, Min(c.n, Len(v)))

\* C19: appends and prunes of different threads act on the log one at a
\* time.  A call that returns has done to the log, as it stood when the
\* call returns, exactly what the call does alone, an append adding the
\* entry of that call; no other step changes the log; the entries of one
\* thread keep the order of its calls.  The log at any time is then the
\* outcome of the calls that have returned, taken one after the other in the
\* order of their returns, and no append is overwritten by a prune.
C19_AppendsAndPrunesAtomic ==
    [][\A s \in Stores :
         /\ InIssueOrder(origin'[s])
         /\ \/ Visible(s)' = Visible(s)
            \/ \E t \in Threads : handle[t] = s /\ pc[t] # "idle" /\ pc'[t] = "idle"
         /\ \A t \in Threads :
              (handle[t] = s /\ pc[t] # "idle" /\ pc'[t] = "idle") =>
                 /\ RunAlone(cur[t], Visible(s), Visible(s)')
                 /\ cur[t].op \in AllocOps => Last(origin'[s]) = << t, calls[t] >>]_vars

\* A pruning call is between split_off and the assignment of `new`, which
\* holds an entry, and an allocate of another thread has made its inner call
\* and waits at write().
C19_Witness ==
    \E t, u \in Threads :
        /\ t # u /\ handle[t] = handle[u]
        /\ pc[t] = "replacing" /\ cur[t].new # << >>
        /\ pc[u] = "write" /\ cur[u].op = "allocate"

\* e records a successful allocation of address a.
AllocationOf(e, a) == e.kind \in { KindAllocate, KindAllocateZeroed } /\ e.addr = Some(a)

\* e records that address a was given back.
DeallocationOf(e, a) == e.kind = KindDeallocate /\ e.addr = Some(a)

\* C20 as stated, in what it says the log shows: the entries stand in the
\* order of their inner calls, so that (the inner allocator never giving out
\* a live address) between two successful allocation entries of one address
\* there is a Deallocate entry of that address.
C20_OrderOfInnerCalls ==
    \A s \in Stores : \A a \in Addrs :
        \A i, j \in 1..Len(history[s]) :
            (i < j /\ AllocationOf(history[s][i], a) /\ AllocationOf(history[s][j], a)) =>
                \E k \in (i + 1)..(j - 1) : DeallocationOf(history[s][k], a)

\* The calls of thread t that have returned.
ReturnedCalls(t) == IF pc[t] = "idle" THEN calls[t] ELSE calls[t] - 1

\* C20, amended: the entries stand in the order of their appends, and the
\* entry of a call is appended behind all entries of the log after the call
\* made its inner call and before the call returns: a call has no entry
\* when it makes its inner call, and a step that changes the log appends
\* the entry of a call that has made its inner call and has not returned.
\* So the entry of a call that had returned when another call was issued
\* stands before the entry of that call.
C20_OrderOfAppends ==
    [][\A s \in Stores :
         /\ \A t \in Threads :
              (handle[t] = s /\ pc[t] = "idle" /\ pc'[t] # "idle") =>
                 /\ cur'[t].inner # Pending
                 /\ \A i \in 1..Len(origin'[s]) : origin'[s][i] # << t, calls'[t] >>
         /\ origin'[s] # origin[s] =>
              \E t \in Threads :
                 /\ handle[t] = s /\ pc[t] # "idle" /\ cur[t].inner # Pending
                 /\ calls[t] > ReturnedCalls(t)
                 /\ \A i \in 1..Len(origin[s]) : origin[s][i] # << t, calls[t] >>
                 /\ origin'[s] = Append(origin[s], << t, calls[t] >>)
                 /\ history'[s] = Append(history[s], RecordedAction(cur[t]))]_vars

\* Thread 1 allocated a block and freed it; thread 2's allocate, issued
\* after thread 1's allocate had returned, got the same address and
\* appended its entry before the entry of the deallocate: the log shows
\* Allocate, Allocate, Deallocate of one address, thread 1's Allocate first.
C20_Witness ==
    \E a \in Addrs :
        /\ \A t \in Threads : pc[t] = "idle"
        /\ origin[1] = << << 1, 1 >>, << 2, 1 >>, << 1, 2 >> >>
        /\ AllocationOf(history[1][1], a)
        /\ AllocationOf(history[1][2], a)
        /\ DeallocationOf(history[1][3], a)

=============================================================================
